---- MODULE Spec2Model ----
(***************************************************************************)
(* Model of src/Analysis.py: the NBA player statistics pipeline            *)
(*   load_data -> preview_data -> clean_data -> analyze_top_scorers ->     *)
(*   analyze_team_performance -> create_visualization ->                   *)
(*   generate_summary_report, driven by main().                            *)
(*                                                                         *)
(* A DataFrame is a record [none, cols, rows]: cols is the set of column   *)
(* labels, rows the sequence of rows in frame order.  A row carries its    *)
(* pandas index label idx (kept by dropna, sort_values and head) and the   *)
(* cells c of the columns whose values the analyses read: Player, Tm, PTS, *)
(* G and the derived PPG.  The other columns (Year, MP, TRB, AST, STL,     *)
(* BLK) are tracked by presence only.                                      *)
(*                                                                         *)
(* A cell is a record [k, s, n, d]: k = "nan" (missing), "str" (text s),   *)
(* "num" (the number n/d, d > 0) or "inf" (+infinity).  Numbers are exact  *)
(* rationals: floating point rounding is not modelled.                     *)
(***************************************************************************)
EXTENDS Integers, Sequences, FiniteSets, TLC

VARIABLES file, pc, data, top_n, top_scorers, team_stats, artifact, trace, raised

vars == <<file, pc, data, top_n, top_scorers, team_stats, artifact, trace, raised>>

(* ---------------------------------------------------------------- bounds *)

\* Largest number of data lines of the CSV file read by main().
MaxRows == 2

\* Largest number of data lines of the tables given to a single analysis.
MaxAnalysisRows == 3

\* Largest top_n given to analyze_top_scorers when it is checked on its own.
MaxN == 3

(* ------------------------------------------------------------- constants *)

\* main(): analyze_top_scorers(data, top_n=10)
MainTopN == 10

(* ----------------------------------------------------------------- cells *)

NaN == [k |-> "nan", s |-> "", n |-> 0, d |-> 1]

Inf == [k |-> "inf", s |-> "", n |-> 0, d |-> 1]

Str(t) == [k |-> "str", s |-> t, n |-> 0, d |-> 1]

Num(a, b) == [k |-> "num", s |-> "", n |-> a, d |-> b]

RECURSIVE GCD(_, _)
GCD(a, b) == IF b = 0 THEN a ELSE GCD(b, a % b)

\* The number a/b (a >= 0, b > 0) in lowest terms: one cell per float value.
Rat(a, b) == Num(a \div GCD(a, b), b \div GCD(a, b))

\* pandas isna(): the cell is missing.
isna(v) == v.k = "nan"

\* The texts that parse as a number, with the number each denotes.
NumText == ("0" :> 0) @@ ("1" :> 1) @@ ("2" :> 2) @@ ("3" :> 3)

IsNumericText(t) == t \in DOMAIN NumText

(* ------------------------------------------------------------ DataFrames *)

None == [none |-> TRUE, cols |-> {}, rows |-> <<>>]

Frame(cs, rs) == [none |-> FALSE, cols |-> cs, rows |-> rs]

\* The columns of the dataset (spec section 6 and the column lists of the code).
AllCols == {"Player", "Tm", "Year", "PTS", "G", "MP", "TRB", "AST", "STL", "BLK"}

\* The columns whose cells a CSV line of the model gives.
RawTracked == {"Player", "Tm", "PTS", "G"}

\* A row of a frame: index label i, cells cs.
Row(i, cs) == [idx |-> i, c |-> cs]

(* ------------------------------------------------------------- load_data *)

\* pd.read_csv type inference: a column all of whose non-empty fields parse as
\* numbers is a numeric column; any other column is an object column of texts.
ColumnIsNumeric(f, col) ==
    \A i \in 1..Len(f.lines) :
        f.lines[i][col] = "" \/ IsNumericText(f.lines[i][col])

\* pd.read_csv: the cell a field becomes; an empty field is missing.
ParseField(f, col, t) ==
    IF t = "" THEN NaN
    ELSE IF ColumnIsNumeric(f, col) THEN Num(NumText[t], 1)
    ELSE Str(t)

\* pd.read_csv(filepath) on a file that exists and parses: header row = the
\* columns, one row per line, index labels 0, 1, ...
read_csv(f) ==
    Frame(f.header,
          [i \in 1..Len(f.lines) |->
              Row(i - 1, [col \in DOMAIN f.lines[i] |->
                              ParseField(f, col, f.lines[i][col])])])

\* Mutant of load_data: only FileNotFoundError is caught, and what read_csv
\* made of an unparsable file is returned.
load_data_catches_only_missing(f) ==
    IF f.status = "absent" THEN None ELSE read_csv(f)

\* load_data(filepath): the frame, or None when read_csv raises
\* FileNotFoundError or any other Exception.
load_data(f) ==
    IF f.status = "ok" THEN read_csv(f) ELSE None

(* ------------------------------------------------------------ clean_data *)

\* DataFrame.dropna(subset=...) raises KeyError for a label that is no column.
dropna_raises(df, subset) == ~(subset \subseteq df.cols)

\* Mutant of dropna: the kept rows are given new index labels 0, 1, ...
dropna_reindexed(df, subset) ==
    LET kept == SelectSeq(df.rows, LAMBDA r : \A col \in subset : ~isna(r.c[col]))
    IN  Frame(df.cols, [i \in 1..Len(kept) |-> Row(i - 1, kept[i].c)])

\* DataFrame.dropna(subset=...): the rows with no missing cell in subset, in
\* order, index labels kept.
dropna(df, subset) ==
    Frame(df.cols,
          SelectSeq(df.rows, LAMBDA r : \A col \in subset : ~isna(r.c[col])))

\* pd.to_numeric(..., errors='coerce') on one cell.
to_numeric(v) ==
    IF v.k = "str"
    THEN IF IsNumericText(v.s) THEN Num(NumText[v.s], 1) ELSE NaN
    ELSE v

\* The subset of the first dropna of clean_data.
CriticalCols == {"Player", "Tm", "PTS", "G"}

\* numeric_columns of clean_data.
numeric_columns == {"PTS", "G", "MP", "TRB", "AST", "STL", "BLK"}

\* The loop over numeric_columns: each one that is a column is coerced.
coerce(df) ==
    Frame(df.cols,
          [i \in 1..Len(df.rows) |->
              Row(df.rows[i].idx,
                  [col \in DOMAIN df.rows[i].c |->
                      IF col \in numeric_columns /\ col \in df.cols
                      THEN to_numeric(df.rows[i].c[col])
                      ELSE df.rows[i].c[col]])])

\* The dropna that follows the coercion.
dropna_after_coerce(df) == dropna(df, {"PTS"})

clean_data_raises(df) == dropna_raises(df, CriticalCols)

\* clean_data(data) when it does not raise.
clean_data(df) == dropna_after_coerce(coerce(dropna(df, CriticalCols)))

(* ------------------------------------------------------ float arithmetic *)

\* a >= b for two cells that are not missing (numbers and +infinity).
GE(a, b) ==
    IF a.k = "inf" THEN TRUE
    ELSE IF b.k = "inf" THEN FALSE
    ELSE a.n * b.d >= b.n * a.d

\* Series / Series on one row: float division; x/0 is inf, 0/0 and anything
\* with a missing operand is NaN.  (Operands are numeric after clean_data.)
div(a, b) ==
    IF isna(a) \/ isna(b) THEN NaN
    ELSE IF b.n = 0 THEN (IF a.n = 0 THEN NaN ELSE Inf)
    ELSE Rat(a.n * b.d, a.d * b.n)

add(a, b) ==
    IF a.k = "inf" \/ b.k = "inf" THEN Inf
    ELSE Rat(a.n * b.d + b.n * a.d, a.d * b.d)

\* Series.sum(): missing cells are skipped; the empty sum is 0.
RECURSIVE sum(_)
sum(vs) ==
    IF vs = <<>> THEN Num(0, 1)
    ELSE IF isna(Head(vs)) THEN sum(Tail(vs))
    ELSE add(Head(vs), sum(Tail(vs)))

\* Series.count(): the number of cells that are not missing.
count(vs) == Len(SelectSeq(vs, LAMBDA v : ~isna(v)))

\* Mutant of mean: the sum of the cells that are not missing is divided by
\* the number of all cells.
mean_over_all_cells(vs) ==
    IF count(vs) = 0 THEN NaN
    ELSE IF sum(vs).k = "inf" THEN Inf
    ELSE Rat(sum(vs).n, sum(vs).d * Len(vs))

\* Series.mean(): missing cells are skipped; NaN when nothing is left.
mean(vs) ==
    IF count(vs) = 0 THEN NaN
    ELSE IF sum(vs).k = "inf" THEN Inf
    ELSE Rat(sum(vs).n, sum(vs).d * count(vs))

(* ----------------------------------------------------------- sort_values *)

\* The orders in which 1..n may be arranged.
Perms(n) == {f \in [1..n -> 1..n] : \A i, j \in 1..n : f[i] = f[j] => i = j}

\* Mutant of sort_values: ascending order.
sort_values_ascending(rs, col) ==
    LET nn == SelectSeq(rs, LAMBDA r : ~isna(r.c[col]))
        na == SelectSeq(rs, LAMBDA r : isna(r.c[col]))
    IN  {[i \in 1..Len(nn) |-> nn[f[i]]] \o na :
            f \in {g \in Perms(Len(nn)) :
                     \A i, j \in 1..Len(nn) :
                        i < j => GE(nn[g[j]].c[col], nn[g[i]].c[col])}}

\* DataFrame.sort_values(by=col, ascending=False) with the default
\* kind='quicksort', which is not stable: the rows with a value come first, by
\* value non-increasing, rows of equal value in any order; the rows whose value
\* is missing follow in frame order (na_position='last').
sort_values(rs, col) ==
    LET nn == SelectSeq(rs, LAMBDA r : ~isna(r.c[col]))
        na == SelectSeq(rs, LAMBDA r : isna(r.c[col]))
    IN  {[i \in 1..Len(nn) |-> nn[f[i]]] \o na :
            f \in {g \in Perms(Len(nn)) :
                     \A i, j \in 1..Len(nn) :
                        i < j => GE(nn[g[i]].c[col], nn[g[j]].c[col])}}

\* Mutant of head: one row too many.
head_one_more(rs, n) == SubSeq(rs, 1, IF n + 1 < Len(rs) THEN n + 1 ELSE Len(rs))

\* DataFrame.head(n) for n >= 0.
head(rs, n) == SubSeq(rs, 1, IF n < Len(rs) THEN n ELSE Len(rs))

\* DataFrame.insert(0, 'Rank', range(1, len + 1)).
insert_rank(rs) ==
    [i \in 1..Len(rs) |->
        Row(rs[i].idx,
            [col \in DOMAIN rs[i].c \cup {"Rank"} |->
                IF col = "Rank" THEN Num(i, 1) ELSE rs[i].c[col]])]

(* --------------------------------------------------- analyze_top_scorers *)

\* data[['Player', 'Tm', 'Year', 'PTS', 'G', 'MP']]
TopCols == {"Player", "Tm", "Year", "PTS", "G", "MP"}

\* The column selection raises KeyError when one of the labels is no column.
analyze_top_scorers_raises(df) == ~(TopCols \subseteq df.cols)

\* data[[...]].copy(): a new frame of the selected columns.
select(df, cs) ==
    Frame(cs,
          [i \in 1..Len(df.rows) |->
              Row(df.rows[i].idx,
                  [col \in DOMAIN df.rows[i].c \cap cs |-> df.rows[i].c[col]])])

\* analyze_top_scorers(data, top_n): the frames it may return.
analyze_top_scorers(df, n) ==
    {Frame(TopCols \cup {"Rank"}, insert_rank(head(s, n))) :
        s \in sort_values(select(df, TopCols).rows, "PTS")}

(* ---------------------------------------------- analyze_team_performance *)

\* data['PPG'] = data['PTS'] / data['G']: the frame data refers to, after the
\* assignment.
with_PPG(df) ==
    Frame(df.cols \cup {"PPG"},
          [i \in 1..Len(df.rows) |->
              Row(df.rows[i].idx,
                  [col \in DOMAIN df.rows[i].c \cup {"PPG"} |->
                      IF col = "PPG"
                      THEN div(df.rows[i].c["PTS"], df.rows[i].c["G"])
                      ELSE df.rows[i].c[col]])])

\* The order of the team names of the model as texts.
TmRank == ("X" :> 1) @@ ("Y" :> 2)

\* groupby('Tm'): the group keys, the distinct values of Tm that are not
\* missing, in sorted order.
RECURSIVE SortedKeys(_)
SortedKeys(ks) ==
    IF ks = {} THEN <<>>
    ELSE LET k == CHOOSE x \in ks : \A y \in ks : TmRank[x] <= TmRank[y]
         IN  <<k>> \o SortedKeys(ks \ {k})

group_keys(df) ==
    SortedKeys({df.rows[i].c["Tm"].s :
                   i \in {j \in 1..Len(df.rows) : ~isna(df.rows[j].c["Tm"])}})

\* The cells of column col in the rows of team t, in frame order.
group_cells(df, t, col) ==
    LET g == SelectSeq(df.rows, LAMBDA r : r.c["Tm"] = Str(t))
    IN  [i \in 1..Len(g) |-> g[i].c[col]]

\* .agg({'PPG': 'mean', 'Player': 'count', 'PTS': 'sum', 'G': 'mean'})
\* .reset_index() and the renaming of the columns.
TeamCols ==
    {"Team", "Avg_PPG_Per_Player", "Total_Players", "Total_Points", "Avg_Games_Played"}

agg(df) ==
    LET ks == group_keys(df)
    IN  [i \in 1..Len(ks) |->
            Row(i - 1,
                [col \in TeamCols |->
                    CASE col = "Team" -> Str(ks[i])
                      [] col = "Avg_PPG_Per_Player" -> mean(group_cells(df, ks[i], "PPG"))
                      [] col = "Total_Players" -> Num(count(group_cells(df, ks[i], "Player")), 1)
                      [] col = "Total_Points" -> sum(group_cells(df, ks[i], "PTS"))
                      [] col = "Avg_Games_Played" -> mean(group_cells(df, ks[i], "G"))])]

\* team_stats.iloc[0] of the insights raises IndexError on an empty frame.
analyze_team_performance_raises(df) == group_keys(df) = <<>>

\* analyze_team_performance(data): the frames it may return; data is the
\* caller's frame after the PPG assignment.
analyze_team_performance(df) ==
    {Frame(TeamCols \cup {"Rank"}, insert_rank(s)) :
        s \in sort_values(agg(with_PPG(df)), "Avg_PPG_Per_Player")}

(* -------------------------------------------------- create_visualization *)

\* team_stats.head(20)
ChartTeams == 20

\* The chart saved as team_performance.png: one bar per row of head(20).
create_visualization(ts) ==
    LET top_teams == head(ts.rows, ChartTeams)
    IN  [written |-> TRUE,
         bars |-> [i \in 1..Len(top_teams) |->
                      <<top_teams[i].c["Team"], top_teams[i].c["Avg_PPG_Per_Player"]>>]]

NoArtifact == [written |-> FALSE, bars |-> <<>>]

(* ----------------------------------------------- generate_summary_report *)

\* Mutant of generate_summary_report: the best team is read at iloc[1].
generate_summary_report_raises_second(df, ts, tm) ==
    \/ ~({"Player", "Tm", "Year"} \subseteq df.cols)
    \/ ts.rows = <<>>
    \/ Len(tm.rows) < 2

\* data['Year'] raises KeyError without the column; top_scorers.iloc[0] and
\* team_stats.iloc[0] raise IndexError on an empty frame.
generate_summary_report_raises(df, ts, tm) ==
    \/ ~({"Player", "Tm", "Year"} \subseteq df.cols)
    \/ ts.rows = <<>>
    \/ tm.rows = <<>>

(* ----------------------------------------------------------- input files *)

PlayerFields == {"", "A"}

TmFields == {"", "X", "Y"}

PTSFields == {"", "abc", "0", "1", "2"}

GFields == {"", "abc", "0", "1", "2"}

FieldsOf(col) ==
    CASE col = "Player" -> PlayerFields
      [] col = "Tm" -> TmFields
      [] col = "PTS" -> PTSFields
      [] col = "G" -> GFields

\* The headers of the files: every column, one without an optional column, one
\* without a column the cleaning needs, one without a column the ranking needs.
Headers == {AllCols, AllCols \ {"BLK"}, AllCols \ {"G"}, AllCols \ {"MP"}}

\* The lines a file with header h may hold: one field per tracked column.
LinesOf(h) ==
    {l \in [h \cap RawTracked -> PlayerFields \cup TmFields \cup PTSFields \cup GFields] :
        \A col \in DOMAIN l : l[col] \in FieldsOf(col)}

\* The fields of the files main() is run on: one team, one number per numeric
\* column, and every way a field can be empty or text.
MainFields(col) ==
    CASE col = "Player" -> {"", "A"}
      [] col = "Tm" -> {"", "X"}
      [] col = "PTS" -> {"", "abc", "1"}
      [] col = "G" -> {"", "abc", "2"}

MainLines(h) ==
    {l \in LinesOf(h) : \A col \in DOMAIN l : l[col] \in MainFields(col)}

\* A CSV file that exists and parses, with header h and lines ls.
OkFile(h, ls) == [status |-> "ok", header |-> h, lines |-> ls]

\* The path names no file; the file cannot be parsed.
AbsentFile == [status |-> "absent", header |-> {}, lines |-> <<>>]

UnparsableFile == [status |-> "unparsable", header |-> {}, lines |-> <<>>]

\* f is a CSV file main() may find at its path: absent, unparsable, or one of
\* the headers with at most m lines.
IsFile(f, m) ==
    \/ f = AbsentFile
    \/ f = UnparsableFile
    \/ \E h \in Headers, k \in 0..m :
          \E ls \in [1..k -> MainLines(h)] : f = OkFile(h, ls)

\* The files given to analyze_top_scorers on its own: complete rows of one
\* team, any PTS field.
TopLines ==
    {l \in LinesOf(AllCols) : l["Player"] = "A" /\ l["Tm"] = "X" /\ l["G"] = "2"}

IsTopFile(f, m) ==
    \E k \in 0..m : \E ls \in [1..k -> TopLines] : f = OkFile(AllCols, ls)

\* The files given to analyze_team_performance on its own: rows of two teams
\* with numeric PTS and any G field but the empty one.
TeamLines ==
    {l \in LinesOf(AllCols) :
        l["Player"] = "A" /\ l["Tm"] # "" /\ l["PTS"] \in {"0", "2"} /\ l["G"] # ""}

IsTeamFile(f, m) ==
    \E k \in 0..m : \E ls \in [1..k -> TeamLines] : f = OkFile(AllCols, ls)

(* ------------------------------------------------------------------ main *)

\* The statements of main() in program order.
Stages ==
    <<"load", "preview", "clean", "topScorers", "teamPerformance", "visualize", "report">>

\* Mutant of main: the preview is skipped.
Follows_skips_preview(st) ==
    CASE st = "load" -> "clean"
      [] st = "preview" -> "clean"
      [] st = "clean" -> "topScorers"
      [] st = "topScorers" -> "teamPerformance"
      [] st = "teamPerformance" -> "visualize"
      [] st = "visualize" -> "report"
      [] st = "report" -> "done"

\* The statement main() runs after stage st has returned.
Follows(st) ==
    CASE st = "load" -> "preview"
      [] st = "preview" -> "clean"
      [] st = "clean" -> "topScorers"
      [] st = "topScorers" -> "teamPerformance"
      [] st = "teamPerformance" -> "visualize"
      [] st = "visualize" -> "report"
      [] st = "report" -> "done"

\* main() is over: it returned early, an exception left it, or it ran through.
Terminal == {"returned", "raised", "done"}

Init ==
    /\ IsFile(file, MaxRows)
    /\ pc = "load"
    /\ data = None
    /\ top_n = MainTopN
    /\ top_scorers = None
    /\ team_stats = None
    /\ artifact = NoArtifact
    /\ trace = <<>>
    /\ raised = "none"

\* data = load_data(filepath); if data is None: return
Load ==
    /\ pc = "load"
    /\ trace' = Append(trace, "load")
    /\ data' = load_data(file)
    /\ pc' = IF load_data(file) = None THEN "returned" ELSE Follows("load")
    /\ UNCHANGED <<file, top_n, top_scorers, team_stats, artifact, raised>>

\* preview_data(data): prints head, columns, dtypes and describe.
Preview ==
    /\ pc = "preview"
    /\ trace' = Append(trace, "preview")
    /\ pc' = Follows("preview")
    /\ UNCHANGED <<file, data, top_n, top_scorers, team_stats, artifact, raised>>

\* data = clean_data(data)
Clean ==
    /\ pc = "clean"
    /\ trace' = Append(trace, "clean")
    /\ IF clean_data_raises(data)
       THEN /\ pc' = "raised"
            /\ raised' = "KeyError"
            /\ UNCHANGED data
       ELSE /\ pc' = Follows("clean")
            /\ data' = clean_data(data)
            /\ UNCHANGED raised
    /\ UNCHANGED <<file, top_n, top_scorers, team_stats, artifact>>

\* top_scorers = analyze_top_scorers(data, top_n=10)
TopScorers ==
    /\ pc = "topScorers"
    /\ trace' = Append(trace, "topScorers")
    /\ IF analyze_top_scorers_raises(data)
       THEN /\ pc' = "raised"
            /\ raised' = "KeyError"
            /\ UNCHANGED top_scorers
       ELSE /\ pc' = Follows("topScorers")
            /\ top_scorers' \in analyze_top_scorers(data, top_n)
            /\ UNCHANGED raised
    /\ UNCHANGED <<file, data, top_n, team_stats, artifact>>

\* team_stats = analyze_team_performance(data): the PPG assignment acts on the
\* frame main's data refers to, before anything in the function can raise.
TeamPerformance ==
    /\ pc = "teamPerformance"
    /\ trace' = Append(trace, "teamPerformance")
    /\ data' = with_PPG(data)
    /\ IF analyze_team_performance_raises(data)
       THEN /\ pc' = "raised"
            /\ raised' = "IndexError"
            /\ UNCHANGED team_stats
       ELSE /\ pc' = Follows("teamPerformance")
            /\ team_stats' \in analyze_team_performance(data)
            /\ UNCHANGED raised
    /\ UNCHANGED <<file, top_n, top_scorers, artifact>>

\* create_visualization(team_stats)
Visualize ==
    /\ pc = "visualize"
    /\ trace' = Append(trace, "visualize")
    /\ artifact' = create_visualization(team_stats)
    /\ pc' = Follows("visualize")
    /\ UNCHANGED <<file, data, top_n, top_scorers, team_stats, raised>>

\* generate_summary_report(data, top_scorers, team_stats)
Report ==
    /\ pc = "report"
    /\ trace' = Append(trace, "report")
    /\ IF generate_summary_report_raises(data, top_scorers, team_stats)
       THEN /\ pc' = "raised"
            /\ raised' = "IndexError"
       ELSE /\ pc' = Follows("report")
            /\ UNCHANGED raised
    /\ UNCHANGED <<file, data, top_n, top_scorers, team_stats, artifact>>

Next ==
    \/ Load
    \/ Preview
    \/ Clean
    \/ TopScorers
    \/ TeamPerformance
    \/ Visualize
    \/ Report

\* One run of main() on any of the files.
Spec == Init /\ [][Next]_vars

\* analyze_top_scorers on its own: any cleaned table, any top_n in 1..MaxN.
InitTop ==
    /\ IsTopFile(file, MaxAnalysisRows)
    /\ pc = "topScorers"
    /\ data = clean_data(read_csv(file))
    /\ top_n \in 1..MaxN
    /\ top_scorers = None
    /\ team_stats = None
    /\ artifact = NoArtifact
    /\ trace = <<"load", "preview", "clean">>
    /\ raised = "none"

NextTop == TopScorers

SpecTop == InitTop /\ [][NextTop]_vars

\* analyze_team_performance on its own: any cleaned table.
InitTeam ==
    /\ IsTeamFile(file, MaxAnalysisRows)
    /\ pc = "teamPerformance"
    /\ data = clean_data(read_csv(file))
    /\ top_n = MainTopN
    /\ top_scorers = None
    /\ team_stats = None
    /\ artifact = NoArtifact
    /\ trace = <<"load", "preview", "clean", "topScorers">>
    /\ raised = "none"

NextTeam == TeamPerformance

SpecTeam == InitTeam /\ [][NextTeam]_vars

(* ---------------------------------------------------------------- claims *)

\* clean_data has just returned to main(): data is the cleaned table.
CleanReturned == pc = "topScorers"

\* The table load_data gave main(), recomputed from the file.
Loaded == read_csv(file)

\* C1 (as stated): every row of the table clean_data returns has non-missing
\* Player, Tm, PTS and G, and its PTS is numeric.
C1_CleanedRowsComplete ==
    CleanReturned =>
        \A i \in 1..Len(data.rows) :
            /\ \A col \in {"Player", "Tm", "PTS", "G"} : ~isna(data.rows[i].c[col])
            /\ data.rows[i].c["PTS"].k = "num"

\* C2 (as stated): clean_data is idempotent: cleaning the table clean_data
\* returned gives that same table, no row removed and no cell changed.
C2_CleanIdempotent ==
    CleanReturned => clean_data(data) = data

\* C3: when load_data fails (file absent, or unparsable) it returns None and
\* main returns at once: no later stage runs, nothing is computed, no image
\* is written and no exception leaves main.
C3_LoadFailureHalts ==
    (file.status # "ok" /\ pc # "load") =>
        /\ data = None
        /\ pc = "returned"
        /\ trace = <<"load">>
        /\ top_scorers = None
        /\ team_stats = None
        /\ artifact = NoArtifact
        /\ raised = "none"

C3_Witness ==
    file.status = "unparsable" /\ pc = "returned" /\ trace = <<"load">>

\* C7 (as stated): the table main passes to generate_summary_report has the
\* columns and values of the table clean_data returned: the PPG column of
\* analyze_team_performance is not in it.
C7_CallerTableUnchanged ==
    pc = "report" => data = clean_data(Loaded)

\* C8: clean_data only removes rows: the output has the input's columns, at
\* most as many rows, and its rows are rows of the input (same index label,
\* same Player and Tm cells) in their original relative order, none twice.
C8_CleanOnlyRemovesRows ==
    CleanReturned =>
        /\ data.cols = Loaded.cols
        /\ Len(data.rows) <= Len(Loaded.rows)
        /\ \A i \in 1..Len(data.rows) :
              \E j \in 1..Len(Loaded.rows) :
                 /\ Loaded.rows[j].idx = data.rows[i].idx
                 /\ Loaded.rows[j].c["Player"] = data.rows[i].c["Player"]
                 /\ Loaded.rows[j].c["Tm"] = data.rows[i].c["Tm"]
                 /\ DOMAIN Loaded.rows[j].c = DOMAIN data.rows[i].c
        /\ \A i, j \in 1..Len(data.rows) :
              i < j => data.rows[i].idx < data.rows[j].idx

\* The first line of the file is removed and the second kept.
C8_Witness ==
    /\ CleanReturned
    /\ Len(file.lines) = 2
    /\ Len(data.rows) = 1
    /\ data.rows[1].idx = 1

\* C10: the stages run only in the order load, preview, clean,
\* topScorers(n=10), teamPerformance, visualize, report: what has run is a
\* prefix of that order (so no stage twice, none skipped, none early), and the
\* stage main is about to run is the next one of the order.
C10_FixedStageOrder ==
    /\ Len(trace) <= Len(Stages)
    /\ trace = SubSeq(Stages, 1, Len(trace))
    /\ top_n = MainTopN
    /\ pc \notin Terminal => (Len(trace) < Len(Stages) /\ pc = Stages[Len(trace) + 1])
    /\ pc = "done" => trace = Stages

C10_Witness ==
    pc = "done" /\ trace = Stages /\ Len(data.rows) = 2

\* C4 (as stated): whenever load_data succeeds, main runs to completion: once
\* it is over, every stage through generate_summary_report has finished.
C4_CompletesWheneverLoaded ==
    (file.status = "ok" /\ pc \in Terminal) => pc = "done"

\* The file loads, the table has the columns the analyses select, and its
\* cleaned table has at least one row.
C4_Loadable ==
    /\ file.status = "ok"
    /\ TopCols \subseteq file.header
    /\ clean_data(Loaded).rows # <<>>

\* C4 (amended): when load_data succeeds on a table that has the columns the
\* analyses select and whose cleaned table has at least one row, main never
\* returns early and no stage raises, so the run can only end with every stage
\* through generate_summary_report finished and the chart written.
C4_CompletesOnNonEmptyCleanTable ==
    C4_Loadable =>
        /\ raised = "none"
        /\ pc \notin {"returned", "raised"}
        /\ pc \in Terminal => (pc = "done" /\ trace = Stages /\ artifact.written)

C4_Witness ==
    /\ pc = "done"
    /\ Len(data.rows) = 1
    /\ Len(file.lines) = 2
    /\ artifact.written

\* analyze_top_scorers has just returned: top_scorers is its result for the
\* table data and the number top_n.
TopReturned == pc = "teamPerformance"

\* The PTS of a row, a number after clean_data.
PTSOf(r) == r.c["PTS"].n

\* The index labels of the rows analyze_top_scorers returned.
Retained == {top_scorers.rows[i].idx : i \in 1..Len(top_scorers.rows)}

\* C5: analyze_top_scorers(table, n) returns min(n, rows(table)) rows; they
\* are distinct rows of the table, no row left out has more PTS than a row
\* returned, they are ordered by PTS non-increasing, and Rank is 1..length in
\* that order.
C5_TopScorers ==
    TopReturned =>
        LET out == top_scorers.rows
            inp == data.rows
        IN  /\ Len(out) = IF top_n < Len(inp) THEN top_n ELSE Len(inp)
            /\ \A i \in 1..Len(out) : out[i].c["Rank"] = Num(i, 1)
            /\ \A i, j \in 1..Len(out) : i < j => PTSOf(out[i]) >= PTSOf(out[j])
            /\ \A i, j \in 1..Len(out) : i # j => out[i].idx # out[j].idx
            /\ \A i \in 1..Len(out) :
                  \E j \in 1..Len(inp) :
                     /\ inp[j].idx = out[i].idx
                     /\ \A col \in {"Player", "Tm", "PTS", "G"} :
                           inp[j].c[col] = out[i].c[col]
            /\ \A j \in 1..Len(inp) :
                  inp[j].idx \notin Retained =>
                     \A i \in 1..Len(out) : PTSOf(out[i]) >= PTSOf(inp[j])

\* The second scenario of the spec, scaled: PTS = [1, 0, 2] and n = 2 give the
\* row of 2 points at rank 1 and the row of 1 point at rank 2.
C5_Witness ==
    /\ TopReturned
    /\ top_n = 2
    /\ Len(data.rows) = 3
    /\ [i \in 1..3 |-> PTSOf(data.rows[i])] = <<1, 0, 2>>
    /\ [i \in 1..Len(top_scorers.rows) |-> top_scorers.rows[i].idx] = <<2, 0>>

TeamReturned == pc = "visualize"

\* The rows of team t in the table.
TeamRows(t) == {i \in 1..Len(data.rows) : data.rows[i].c["Tm"] = Str(t)}

\* The distinct values of Tm in the table.
Teams == {data.rows[i].c["Tm"].s : i \in 1..Len(data.rows)}

\* The rows of team t whose PTS/G is a value: G is a number, and not 0/0.
Defined(t) ==
    {i \in TeamRows(t) :
        /\ data.rows[i].c["G"].k = "num"
        /\ ~(data.rows[i].c["G"].n = 0 /\ data.rows[i].c["PTS"].n = 0)}

RECURSIVE SumOver(_, _)
SumOver(S, w) ==
    IF S = {} THEN 0
    ELSE LET x == CHOOSE y \in S : TRUE IN w[x] + SumOver(S \ {x}, w)

RECURSIVE ProdOver(_, _)
ProdOver(S, w) ==
    IF S = {} THEN 1
    ELSE LET x == CHOOSE y \in S : TRUE IN w[x] * ProdOver(S \ {x}, w)

\* v is the mean of PTS/G over the rows S, all with G a number: +infinity when
\* some G is 0, else the number with v * |S| = sum of PTS/G, compared over
\* the common denominator, the product of the G.
IsMeanPPG(v, S) ==
    LET g == [i \in S |-> data.rows[i].c["G"].n]
        P == ProdOver(S, g)
    IN  IF \E i \in S : g[i] = 0 THEN v.k = "inf"
        ELSE /\ v.k = "num"
             /\ v.n * Cardinality(S) * P
                  = v.d * SumOver(S, [i \in S |-> PTSOf(data.rows[i]) * (P \div g[i])])

\* One row per distinct Tm, with the number of rows of the team as
\* Total_Players and the sum of their PTS as Total_Points, and Rank 1..count.
TeamRowsCounted ==
    LET out == team_stats.rows
    IN  /\ Len(out) = Cardinality(Teams)
        /\ {out[i].c["Team"] : i \in 1..Len(out)} = {Str(t) : t \in Teams}
        /\ \A i \in 1..Len(out) :
              LET R == TeamRows(out[i].c["Team"].s)
              IN  /\ out[i].c["Total_Players"] = Num(Cardinality(R), 1)
                  /\ out[i].c["Total_Points"]
                       = Num(SumOver(R, [j \in R |-> PTSOf(data.rows[j])]), 1)
                  /\ out[i].c["Rank"] = Num(i, 1)

\* C6 (as stated): the table analyze_team_performance returns has one row per
\* distinct Tm with Total_Players, Total_Points and Rank as above,
\* Avg_PPG_Per_Player is the mean of PTS/G over the rows of the team (all of
\* them, so PTS/G is a value in each), and the rows are ordered by
\* Avg_PPG_Per_Player non-increasing.
C6_TeamStats ==
    TeamReturned =>
        LET out == team_stats.rows
            avg(i) == out[i].c["Avg_PPG_Per_Player"]
        IN  /\ TeamRowsCounted
            /\ \A i \in 1..Len(out) :
                  LET R == TeamRows(out[i].c["Team"].s)
                  IN  /\ Defined(out[i].c["Team"].s) = R
                      /\ IsMeanPPG(avg(i), R)
            /\ \A i, j \in 1..Len(out) :
                  i < j => (~isna(avg(i)) /\ ~isna(avg(j)) /\ GE(avg(i), avg(j)))

\* C6 (amended): analyze_team_performance raises on the empty table; on any
\* other cleaned table it returns one row per distinct Tm with Total_Players,
\* Total_Points and Rank as above, and Avg_PPG_Per_Player is the mean of PTS/G
\* over those rows of the team where PTS/G is a value (a row whose G is
\* missing, or whose PTS and G are both 0, is skipped; NaN when no row is
\* left); the rows are ordered by Avg_PPG_Per_Player non-increasing, the
\* teams whose mean is NaN last.
C6_TeamStatsOverDefinedRows ==
    pc # "teamPerformance" =>
        LET out == team_stats.rows
            avg(i) == out[i].c["Avg_PPG_Per_Player"]
        IN  /\ TeamReturned <=> data.rows # <<>>
            /\ TeamReturned =>
                  /\ TeamRowsCounted
                  /\ \A i \in 1..Len(out) :
                        LET D == Defined(out[i].c["Team"].s)
                        IN  IF D = {} THEN isna(avg(i)) ELSE IsMeanPPG(avg(i), D)
                  /\ \A i, j \in 1..Len(out) :
                        i < j => \/ isna(avg(j))
                                 \/ (~isna(avg(i)) /\ GE(avg(i), avg(j)))

\* Team X with PTS/G = 2 and one row whose G is text, team Y with PTS/G = 1:
\* X has mean 2 over its one defined row, 2 players and 4 points, and ranks
\* above Y.
C6_Witness ==
    /\ TeamReturned
    /\ Len(data.rows) = 3
    /\ Len(team_stats.rows) = 2
    /\ \E i \in TeamRows("X") : isna(data.rows[i].c["G"])
    /\ team_stats.rows[1].c["Team"] = Str("X")
    /\ team_stats.rows[1].c["Avg_PPG_Per_Player"] = Num(2, 1)
    /\ team_stats.rows[1].c["Total_Players"] = Num(2, 1)
    /\ team_stats.rows[1].c["Total_Points"] = Num(4, 1)
    /\ team_stats.rows[2].c["Team"] = Str("Y")
    /\ team_stats.rows[2].c["Avg_PPG_Per_Player"] = Num(1, 1)

====
